---------------------------- MODULE Spec2Model ----------------------------
(***************************************************************************)
(* A model of YTDownloader/downloader.py: the URL classifier               *)
(* (get_downloader and its two patterns), the file-name helpers            *)
(* (_remove_forbidden_characters_from_file_name, the two increment         *)
(* functions) and the two download strategies (PlaylistDownloader,         *)
(* VideoDownloader) with their window event loops.                         *)
(*                                                                         *)
(* Strings are TLA+ strings; the character at position i of s is           *)
(* SubSeq(s, i, i).  The video platform client (pytube), the GUI toolkit   *)
(* and the file system are modelled at the boundary the code uses.         *)
(***************************************************************************)
EXTENDS Integers, Sequences, FiniteSets, TLC

VARIABLES
    url,              \* the string given to get_downloader
    pc,               \* position of the program
    variant,          \* class of the downloader that was constructed
    constructed,      \* the downloader classes constructed so far, in order
    raised,           \* the exception get_downloader raised, "" when none
    sanIn,            \* the name given to _remove_forbidden_characters_from_file_name
    sanOut,           \* what it returned: <<>>, then <<once>>, then <<once, twice>>
    incIn,            \* the arguments of an increment function and the file system
    incOut            \* what the increment function returned, <<>> before the call

clsVars == <<url, pc, variant, constructed, raised>>
sanVars == <<sanIn, sanOut>>
incVars == <<incIn, incOut>>

VARIABLES
    platform,         \* what the video platform holds for the URL (fixed)
    storedUrl,        \* self._url
    pool,             \* the worker pool of _get_playlist during construction
    lists,            \* hd_list, ld_list, audio_list, as far as computed
    streamSelection,  \* self._stream_selection
    folder,           \* the text of the "-FOLDER-" input of the window
    progress,         \* the value of the "-DOWNLOADPROGRESS-" bar
    status,           \* the text of the "-COMPLETED-" element
    opened,           \* the URL last handed to webbrowser.open
    fs,               \* the file system
    fs0,              \* the file system when the program started
    call,             \* the current or last call of download and its effects
    counter,          \* download_counter of the playlist loop
    downloadPath,     \* download_path of the playlist loop
    chunksLeft,       \* chunks the download primitive has still to write
    dlCount,          \* per directory, the downloads started into it
    reordered         \* some round of pool lookups finished out of order

appVars == <<platform, storedUrl, pool, lists, streamSelection, folder, progress,
             status, opened, fs, fs0, call, counter, downloadPath, chunksLeft,
             dlCount, reordered>>

\* file_path of VideoDownloader.download between the probe and the call of the
\* primitive, where another process may act
VARIABLES filePath

raceVars == <<filePath>>

vars == <<clsVars, sanVars, incVars, appVars, raceVars>>

-----------------------------------------------------------------------------
(* Strings *)

CharAt(s, i) == SubSeq(s, i, i)

RECURSIVE Rep(_, _)
\* s repeated n times
Rep(s, n) == IF n <= 0 THEN "" ELSE s \o Rep(s, n - 1)

-----------------------------------------------------------------------------
(* Regular expressions, as Python's re module matches them.  A pattern is  *)
(* a tree; Ends(r, s, P) is the set of positions of s at which a match of  *)
(* r that starts at a position of P can end (positions count the           *)
(* characters already consumed, 0 .. Len(s)).                              *)

Lower == {"a","b","c","d","e","f","g","h","i","j","k","l","m",
          "n","o","p","q","r","s","t","u","v","w","x","y","z"}
Upper == {"A","B","C","D","E","F","G","H","I","J","K","L","M",
          "N","O","P","Q","R","S","T","U","V","W","X","Y","Z"}
Digit == {"0","1","2","3","4","5","6","7","8","9"}
Word  == Lower \cup Upper \cup Digit \cup {"_"}            \* \w
Space == {" ", "\t", "\n", "\r", "\f"}                      \* \s

Lit(str)       == [t |-> "lit", s |-> str]
In(chars)      == [t |-> "set", neg |-> FALSE, chars |-> chars]
NotIn(chars)   == [t |-> "set", neg |-> TRUE, chars |-> chars]
Dot            == NotIn({"\n"})                             \* .
NonSpace       == NotIn(Space)                              \* \S
Cat(parts)     == [t |-> "cat", parts |-> parts]
Alt(parts)     == [t |-> "alt", parts |-> parts]
Opt(r)         == [t |-> "opt", r |-> r]                    \* r?
Star(r)        == [t |-> "star", r |-> r]                   \* r*
Plus(r)        == [t |-> "plus", r |-> r]                   \* r+
Times(r, n)    == [t |-> "times", r |-> r, n |-> n]         \* r{n}
Bol            == [t |-> "bol"]                             \* ^
Eol            == [t |-> "eol"]                             \* $

RECURSIVE Ends(_, _, _)
RECURSIVE EndsCat(_, _, _, _)
RECURSIVE EndsStar(_, _, _)
RECURSIVE EndsTimes(_, _, _, _)

EndsCat(parts, k, s, P) ==
    IF k > Len(parts) THEN P ELSE EndsCat(parts, k + 1, s, Ends(parts[k], s, P))

EndsStar(r, s, P) ==
    LET Q == P \cup Ends(r, s, P)
    IN  IF Q = P THEN P ELSE EndsStar(r, s, Q)

EndsTimes(r, n, s, P) ==
    IF n = 0 THEN P ELSE EndsTimes(r, n - 1, s, Ends(r, s, P))

Ends(r, s, P) ==
    IF P = {} THEN {}
    ELSE CASE r.t = "lit"   -> {p + Len(r.s) : p \in {q \in P :
                                    /\ q + Len(r.s) <= Len(s)
                                    /\ SubSeq(s, q + 1, q + Len(r.s)) = r.s}}
           [] r.t = "set"   -> {p + 1 : p \in {q \in P :
                                    /\ q < Len(s)
                                    /\ (CharAt(s, q + 1) \in r.chars) # r.neg}}
           [] r.t = "cat"   -> EndsCat(r.parts, 1, s, P)
           [] r.t = "alt"   -> UNION {Ends(r.parts[k], s, P) : k \in 1..Len(r.parts)}
           [] r.t = "opt"   -> P \cup Ends(r.r, s, P)
           [] r.t = "star"  -> EndsStar(r.r, s, P)
           [] r.t = "plus"  -> EndsStar(r.r, s, Ends(r.r, s, P))
           [] r.t = "times" -> EndsTimes(r.r, r.n, s, P)
           [] r.t = "bol"   -> P \cap {0}
           [] r.t = "eol"   -> {p \in P : \/ p = Len(s)
                                          \/ p = Len(s) - 1 /\ CharAt(s, Len(s)) = "\n"}

\* Pattern.fullmatch(s) is not None: a match that starts at 0 and ends at Len(s)
fullmatch(r, s) == Len(s) \in Ends(r, s, {0})

\* Pattern.match(s) is not None: a match that starts at 0 and ends anywhere
match(r, s) == Ends(r, s, {0}) # {}

PlaylistIdLen == 34
VideoIdLen == 11

\* (?:https?:\/\/)?(?:www\.|m\.)?(?:youtube(?:-nocookie)?\.com|youtu.be)
UrlHead ==
    << Opt(Cat(<<Lit("http"), Opt(Lit("s")), Lit("://")>>)),
       Opt(Alt(<<Lit("www."), Lit("m.")>>)),
       Alt(<< Cat(<<Lit("youtube"), Opt(Lit("-nocookie")), Lit(".com")>>),
              Cat(<<Lit("youtu"), Dot, Lit("be")>>) >>) >>

\* [\w\-_]
IdChar == In(Word \cup {"-"})

_YOUTUBE_PLAYLIST_URL_PATTERN ==
    Cat(<<Bol>> \o UrlHead \o
        << Lit("/playlist?list="), Times(IdChar, PlaylistIdLen), Eol >>)

_YOUTUBE_VIDEO_URL_PATTERN ==
    Cat(<<Bol>> \o UrlHead \o
        << Opt(Lit("/")), Star(Dot),
           Opt(Alt(<<Lit("watch"), Lit("embed")>>)),
           Alt(<< Cat(<<Star(Dot), Lit("v=")>>), Lit("v/"), Lit("/") >>),
           Times(IdChar, VideoIdLen),
           Opt(Plus(NonSpace)),
           Opt(Cat(<< Lit("?t="),
                      Opt(Cat(<<Plus(In(Digit)), Lit("h")>>)),
                      Opt(Cat(<<Plus(In(Digit)), Lit("m")>>)),
                      Opt(Cat(<<Plus(In(Digit)), Lit("s")>>)),
                      Plus(In(Digit)) >>)),
           Eol >>)

-----------------------------------------------------------------------------
(* get_downloader *)

RegexMatchError == "RegexMatchError"

\* get_downloader with Pattern.match where the code has Pattern.fullmatch
\* (a faulty variant, to compare with)
get_downloader_match(u) ==
    IF match(_YOUTUBE_PLAYLIST_URL_PATTERN, u)
    THEN [class |-> "PlaylistDownloader", raised |-> ""]
    ELSE IF match(_YOUTUBE_VIDEO_URL_PATTERN, u)
    THEN [class |-> "VideoDownloader", raised |-> ""]
    ELSE [class |-> "", raised |-> RegexMatchError]

\* the outcome of get_downloader(u): the class constructed, or the error raised
get_downloader(u) ==
    IF fullmatch(_YOUTUBE_PLAYLIST_URL_PATTERN, u)
    THEN [class |-> "PlaylistDownloader", raised |-> ""]
    ELSE IF fullmatch(_YOUTUBE_VIDEO_URL_PATTERN, u)
    THEN [class |-> "VideoDownloader", raised |-> ""]
    ELSE [class |-> "", raised |-> RegexMatchError]


\* get_downloader(url), called by the entry point with the string the user gave
GetDownloader ==
    /\ pc = "main"
    /\ LET got == get_downloader(url)
       IN  IF got.raised = ""
           THEN /\ constructed' = Append(constructed, got.class)
                /\ variant' = got.class
                /\ raised' = ""
                /\ pc' = "ctor"
           ELSE /\ raised' = got.raised
                /\ pc' = "error"
                /\ UNCHANGED <<constructed, variant>>
    /\ UNCHANGED url

-----------------------------------------------------------------------------
(* File names *)

\* the forbidden characters without the last one (a faulty variant)
FORBIDDEN_NoPipe == {"\"", "\\", "/", ":", "*", "?", "<", ">"}

\* the characters of r'"\/:*?<>|'
FORBIDDEN == {"\"", "\\", "/", ":", "*", "?", "<", ">", "|"}

RECURSIVE _remove_forbidden_characters_from_file_name(_)
\* "".join(char for char in name if char not in FORBIDDEN)
_remove_forbidden_characters_from_file_name(name) ==
    IF name = "" THEN ""
    ELSE (IF CharAt(name, 1) \in FORBIDDEN THEN "" ELSE CharAt(name, 1))
         \o _remove_forbidden_characters_from_file_name(SubSeq(name, 2, Len(name)))

-----------------------------------------------------------------------------
(* Paths and the file system.  The file system is the set of the paths at  *)
(* which an entry exists, each in pathlib's normal form.                   *)

RECURSIVE SplitPath(_, _, _)
\* the components of s from position i on, cur being the one under way
SplitPath(s, i, cur) ==
    IF i > Len(s) THEN <<cur>>
    ELSE IF CharAt(s, i) = "/" THEN <<cur>> \o SplitPath(s, i + 1, "")
    ELSE SplitPath(s, i + 1, cur \o CharAt(s, i))

RECURSIVE JoinPath(_, _)
JoinPath(parts, k) ==
    IF k > Len(parts) THEN ""
    ELSE IF k = Len(parts) THEN parts[k]
    ELSE parts[k] \o "/" \o JoinPath(parts, k + 1)

\* str(Path(s)): empty and "." components dropped, a leading "/" kept
Path(s) ==
    LET parts == SelectSeq(SplitPath(s, 1, ""), LAMBDA c : c # "" /\ c # ".")
        body  == JoinPath(parts, 1)
    IN  IF Len(s) > 0 /\ CharAt(s, 1) = "/" THEN "/" \o body
        ELSE IF body = "" THEN "." ELSE body

\* Path(s).exists() on the file system files
exists(files, s) == Path(s) \in files

RECURSIVE WhileExists(_, _, _, _)
\* i = 1; while Path(f"{stem} ({i}){ext}").exists(): i += 1
WhileExists(files, stem, ext, i) ==
    IF exists(files, stem \o " (" \o ToString(i) \o ")" \o ext)
    THEN WhileExists(files, stem, ext, i + 1)
    ELSE i

\* _increment_playlist_dir_name(root, sub) on the file system files: a path
_increment_playlist_dir_name(files, root, sub) ==
    IF ~exists(files, root \o "/" \o sub)
    THEN Path(root \o "/" \o sub)
    ELSE Path(root \o "/" \o sub \o " ("
              \o ToString(WhileExists(files, root \o "/" \o sub, "", 1)) \o ")")

\* _increment_video_file_name whose loop probes f"{root}/{file_name} ({i})",
\* without the ".mp4" (a faulty variant)
_increment_video_file_name_NoExt(files, root, file_name) ==
    IF ~exists(files, root \o "/" \o file_name \o ".mp4")
    THEN file_name
    ELSE file_name \o " ("
             \o ToString(WhileExists(files, root \o "/" \o file_name, "", 1)) \o ")"

\* _increment_video_file_name that never increments (a faulty variant)
_increment_video_file_name_Same(files, root, file_name) == file_name

\* _increment_video_file_name(root, file_name) on the file system files: a name
_increment_video_file_name(files, root, file_name) ==
    IF ~exists(files, root \o "/" \o file_name \o ".mp4")
    THEN file_name
    ELSE file_name \o " ("
             \o ToString(WhileExists(files, root \o "/" \o file_name, ".mp4", 1)) \o ")"

\* the number of exists() calls the increment of stem + ext makes
Probes(files, stem, ext) ==
    IF ~exists(files, stem \o ext) THEN 1 ELSE 1 + WhileExists(files, stem, ext, 1)

-----------------------------------------------------------------------------
(* The video platform client and the download primitive *)

MaxVideos == 2
MaxDownloads == 2
NumChunks == 2

HD == "HD"
LD == "LD"
AUDIO == "AUDIO"
DownloadOptions == {HD, LD, AUDIO}

\* a resolved stream is the video it belongs to and the option it matches;
\* NoStream is Python's None
NoStream == [video |-> 0, opt |-> "None"]

\* YouTubeDownloader._get_stream_from_video(video, download_options), video
\* being the i-th video the platform holds: streams.filter(...).first()
_get_stream_from_video(i, o) ==
    IF o \in platform.videos[i].offers THEN [video |-> i, opt |-> o] ELSE NoStream

Range(f) == {f[x] : x \in DOMAIN f}

\* the directories os.makedirs(p, exist_ok=True) makes sure of
Ancestors(p) ==
    {Path(SubSeq(p, 1, i)) : i \in {j \in 1..Len(p) : j = Len(p) \/ CharAt(p, j + 1) = "/"}}

\* Stream.download(output_path, filename): the target directory and the file
\* exist afterwards
StreamDownload(files, output_path, filename) ==
    files \cup Ancestors(Path(output_path)) \cup {Path(output_path \o "/" \o filename)}

\* round(): Python rounds num / den to the nearest integer, a half to the even one
round(num, den) ==
    LET q == num \div den
        r == num % den
    IN  IF 2 * r < den THEN q
        ELSE IF 2 * r > den THEN q + 1
        ELSE IF q % 2 = 0 THEN q ELSE q + 1

-----------------------------------------------------------------------------
(* Construction *)

\* YouTubeDownloader.__init__
NormalizedUrl(u) ==
    IF SubSeq(u, 1, 8) = "https://" THEN u ELSE "https://" \o u

NumVideos == Len(platform.videos)

OptionOrder == <<HD, LD, AUDIO>>

\* the executor of one _get_playlist call: the result of each task, and the
\* tasks in the order they finished
FreshPool == [results |-> [i \in 1..NumVideos |-> NoStream], finished |-> <<>>]

\* no executor: each one is shut down when its `with` block is left
NoPool == [results |-> <<>>, finished |-> <<>>]

\* the lookups of the executor finished in another order than the videos'
Reordered(p) == \E j, k \in 1..Len(p.finished) : j < k /\ p.finished[j] > p.finished[k]

\* the results in the order in which the lookups finished, as
\* concurrent.futures.as_completed would yield them (a faulty variant)
stream_list_AsCompleted(p) == [k \in 1..NumVideos |-> p.results[p.finished[k]]]

\* the list executor.map yields: the results in the order of the videos
stream_list(p) == [i \in 1..NumVideos |-> p.results[i]]

\* `lst if None not in lst else None`
Selection(lst) ==
    IF NoStream \notin Range(lst)
    THEN [present |-> TRUE, streams |-> lst]
    ELSE [present |-> FALSE, streams |-> <<>>]

NoSelection == [o \in DownloadOptions |-> [present |-> FALSE, streams |-> <<>>]]

\* PlaylistDownloader.__init__ up to the first _get_playlist
PlaylistInit ==
    /\ pc = "ctor"
    /\ variant = "PlaylistDownloader"
    /\ storedUrl' = NormalizedUrl(url)
    /\ pool' = FreshPool
    /\ lists' = <<>>
    /\ reordered' = FALSE
    /\ pc' = "pool"
    /\ UNCHANGED <<url, variant, constructed, raised, platform, streamSelection,
                   folder, progress, status, opened, fs, fs0, call, counter,
                   downloadPath, chunksLeft, dlCount>>

\* _get_playlist: a worker of the pool finishes the lookup of video i
Lookup(i) ==
    /\ pc = "pool"
    /\ i \in 1..NumVideos
    /\ i \notin Range(pool.finished)
    /\ pool' = [results |-> [pool.results EXCEPT
                    ![i] = _get_stream_from_video(i, OptionOrder[Len(lists) + 1])],
                finished |-> Append(pool.finished, i)]
    /\ UNCHANGED <<clsVars, platform, storedUrl, lists, streamSelection, folder,
                   progress, status, opened, fs, fs0, call, counter, downloadPath,
                   chunksLeft, dlCount, reordered>>

\* _get_playlist returns once every lookup has finished; after the third list
\* __init__ binds the lists to the options and builds the window
Collect ==
    /\ pc = "pool"
    /\ Len(pool.finished) = NumVideos
    /\ LET all == Append(lists, stream_list(pool))
       IN  /\ lists' = all
           /\ IF Len(all) < Len(OptionOrder)
              THEN /\ pool' = FreshPool
                   /\ UNCHANGED <<pc, streamSelection>>
              ELSE /\ streamSelection' =
                         [o \in DownloadOptions |->
                             Selection(all[CHOOSE k \in 1..Len(OptionOrder) :
                                               OptionOrder[k] = o])]
                   /\ pc' = "loop"
                   /\ pool' = NoPool
    /\ reordered' = (reordered \/ Reordered(pool))
    /\ UNCHANGED <<url, variant, constructed, raised, platform, storedUrl, folder,
                   progress, status, opened, fs, fs0, call, counter, downloadPath,
                   chunksLeft, dlCount>>

\* VideoDownloader.__init__
VideoInit ==
    /\ pc = "ctor"
    /\ variant = "VideoDownloader"
    /\ storedUrl' = NormalizedUrl(url)
    /\ streamSelection' =
           [o \in DownloadOptions |-> Selection(<<_get_stream_from_video(1, o)>>)]
    /\ pc' = "loop"
    /\ UNCHANGED <<url, variant, constructed, raised, platform, pool, lists, folder,
                   progress, status, opened, fs, fs0, call, counter, downloadPath,
                   chunksLeft, dlCount, reordered>>

-----------------------------------------------------------------------------
(* download *)

DirNotice          == "Please select a download directory"
UnavailableNotice  == "This resolution is unavailable."
PlaylistDoneNotice == "Download completed"
VideoDoneNotice    == "Downloaded complete"

\* the download buttons of the two windows and the option each one passes
PlaylistButtons == ("-HD-" :> HD) @@ ("-LD-" :> LD) @@ ("-AUDIOALL-" :> AUDIO)
VideoButtons    == ("-HD-" :> HD) @@ ("-LD-" :> LD) @@ ("-AUDIO-" :> AUDIO)

NoCall == [event |-> "", opt |-> "", dir |-> "", notices |-> <<>>, probes |-> 0,
           writes |-> <<>>, fsBefore |-> {}, progressBefore |-> 0,
           statusBefore |-> ""]

\* download(opt, folder) is entered from the button `event`
EnterCall(event, o) ==
    [event |-> event, opt |-> o, dir |-> folder, notices |-> <<>>, probes |-> 0,
     writes |-> <<>>, fsBefore |-> fs, progressBefore |-> progress,
     statusBefore |-> status]

Popup(c, text) == [c EXCEPT !.notices = Append(@, text)]

Written(c, output_path, filename) ==
    [c EXCEPT !.writes = Append(@, [output_path |-> output_path,
                                    filename |-> filename,
                                    existed |-> exists(fs, output_path \o "/" \o filename)])]

\* the early returns with the stream selection tested first (a faulty variant)
Rejection_AvailabilityFirst(download_dir, selection) ==
    IF ~selection.present THEN UnavailableNotice
    ELSE IF download_dir = "" THEN DirNotice
    ELSE ""

\* the early returns without the test of the stream selection (a faulty variant)
Rejection_DirOnly(download_dir, selection) ==
    IF download_dir = "" THEN DirNotice ELSE ""

\* the two early returns of download(download_options, download_dir): the
\* notice it pops up and returns on, "" when it goes on to download
Rejection(download_dir, selection) ==
    IF download_dir = "" THEN DirNotice
    ELSE IF ~selection.present THEN UnavailableNotice
    ELSE ""

\* PlaylistDownloader.download up to the loop over the streams
PlaylistDownload(event) ==
    /\ pc = "loop"
    /\ variant = "PlaylistDownloader"
    /\ event \in DOMAIN PlaylistButtons
    /\ LET o == PlaylistButtons[event]
           c == EnterCall(event, o)
           sub == _remove_forbidden_characters_from_file_name(platform.title)
           notice == Rejection(folder, streamSelection[o])
       IN  IF notice # ""
           THEN /\ call' = Popup(c, notice)
                /\ UNCHANGED <<pc, counter, downloadPath, dlCount, reordered>>
           ELSE /\ dlCount[folder] < MaxDownloads
                /\ downloadPath' = _increment_playlist_dir_name(fs, folder, sub)
                /\ call' = [c EXCEPT !.probes = Probes(fs, folder \o "/" \o sub, "")]
                /\ counter' = 0
                /\ dlCount' = [dlCount EXCEPT ![folder] = @ + 1]
                /\ pc' = "dl"
    /\ UNCHANGED <<url, variant, constructed, raised, platform, storedUrl, pool,
                   lists, streamSelection, folder, progress, status, opened, fs,
                   fs0, chunksLeft, reordered>>

\* one round of `for video in streams_selection`
PlaylistItem ==
    /\ pc = "dl"
    /\ variant = "PlaylistDownloader"
    /\ counter < Len(streamSelection[call.opt].streams)
    /\ LET video == streamSelection[call.opt].streams[counter + 1]
           clean_filename ==
               _remove_forbidden_characters_from_file_name(
                   platform.videos[video.video].title) \o ".mp4"
       IN  /\ fs' = StreamDownload(fs, downloadPath, clean_filename)
           /\ call' = Written(call, downloadPath, clean_filename)
    /\ counter' = counter + 1
    /\ progress' = counter + 1
    /\ status' = ToString(counter + 1) \o " of " \o ToString(platform.length)
    /\ UNCHANGED <<clsVars, platform, storedUrl, pool, lists, streamSelection,
                   folder, opened, fs0, downloadPath, chunksLeft, dlCount, reordered>>

\* _download_complete that also drops the streams just downloaded (a faulty variant)
PlaylistComplete_Clear ==
    /\ pc = "dl"
    /\ variant = "PlaylistDownloader"
    /\ counter = Len(streamSelection[call.opt].streams)
    /\ progress' = 0
    /\ status' = ""
    /\ call' = Popup(call, PlaylistDoneNotice)
    /\ streamSelection' = [streamSelection EXCEPT
                              ![call.opt] = [present |-> FALSE, streams |-> <<>>]]
    /\ pc' = "loop"
    /\ UNCHANGED <<url, variant, constructed, raised, platform, storedUrl, pool,
                   lists, folder, opened, fs, fs0, counter, downloadPath,
                   chunksLeft, dlCount, reordered>>

\* _download_complete that leaves the progress bar as it is (a faulty variant)
PlaylistComplete_NoReset ==
    /\ pc = "dl"
    /\ variant = "PlaylistDownloader"
    /\ counter = Len(streamSelection[call.opt].streams)
    /\ status' = ""
    /\ call' = Popup(call, PlaylistDoneNotice)
    /\ pc' = "loop"
    /\ UNCHANGED <<url, variant, constructed, raised, platform, storedUrl, pool,
                   lists, streamSelection, folder, opened, fs, fs0, counter,
                   downloadPath, chunksLeft, dlCount, progress, reordered>>

\* PlaylistDownloader._download_complete, called when the loop is over
PlaylistComplete ==
    /\ pc = "dl"
    /\ variant = "PlaylistDownloader"
    /\ counter = Len(streamSelection[call.opt].streams)
    /\ progress' = 0
    /\ status' = ""
    /\ call' = Popup(call, PlaylistDoneNotice)
    /\ pc' = "loop"
    /\ UNCHANGED <<url, variant, constructed, raised, platform, storedUrl, pool,
                   lists, streamSelection, folder, opened, fs, fs0, counter,
                   downloadPath, chunksLeft, dlCount, reordered>>

\* VideoDownloader.download up to the point where the primitive has opened the file
VideoDownload(event) ==
    /\ pc = "loop"
    /\ variant = "VideoDownloader"
    /\ event \in DOMAIN VideoButtons
    /\ LET o == VideoButtons[event]
           c == EnterCall(event, o)
           clean_video_title ==
               _remove_forbidden_characters_from_file_name(platform.videos[1].title)
           file_path ==
               _increment_video_file_name(fs, folder, clean_video_title) \o ".mp4"
           notice == Rejection(folder, streamSelection[o])
       IN  IF notice # ""
           THEN /\ call' = Popup(c, notice)
                /\ UNCHANGED <<pc, fs, chunksLeft, dlCount, reordered>>
           ELSE /\ dlCount[folder] < MaxDownloads
                /\ fs' = StreamDownload(fs, folder, file_path)
                /\ call' = Written(
                       [c EXCEPT !.probes =
                            Probes(fs, folder \o "/" \o clean_video_title, ".mp4")],
                       folder, file_path)
                /\ chunksLeft' = NumChunks
                /\ dlCount' = [dlCount EXCEPT ![folder] = @ + 1]
                /\ pc' = "vdl"
    /\ UNCHANGED <<url, variant, constructed, raised, platform, storedUrl, pool,
                   lists, streamSelection, folder, progress, status, opened, fs0,
                   counter, downloadPath, reordered>>

\* the primitive writes a chunk and calls VideoDownloader._progress_check
\* (the file is NumChunks chunks of one size)
VideoChunk ==
    /\ pc = "vdl"
    /\ chunksLeft > 0
    /\ chunksLeft' = chunksLeft - 1
    /\ progress' = 100 - round((chunksLeft - 1) * 100, NumChunks)
    /\ status' = "100% completed"
    /\ UNCHANGED <<clsVars, platform, storedUrl, pool, lists, streamSelection,
                   folder, opened, fs, fs0, call, counter, downloadPath, dlCount, reordered>>

\* the primitive has written the file and calls VideoDownloader._download_complete
VideoComplete ==
    /\ pc = "vdl"
    /\ chunksLeft = 0
    /\ progress' = 0
    /\ status' = ""
    /\ call' = Popup(call, VideoDoneNotice)
    /\ pc' = "loop"
    /\ UNCHANGED <<url, variant, constructed, raised, platform, storedUrl, pool,
                   lists, streamSelection, folder, opened, fs, fs0, counter,
                   downloadPath, chunksLeft, dlCount, reordered>>

-----------------------------------------------------------------------------
(* create_window: the other events of the loop *)

OwnerUrl     == "https://www.youtube.com/@owner"
ChannelUrl   == "https://www.youtube.com/channel/UC"
ThumbnailUrl == "https://i.ytimg.com/vi/abc12345678/hq.jpg"

Dirs == {"/tmp/out"}

LoopFrame ==
    UNCHANGED <<url, variant, constructed, raised, platform, storedUrl, pool, lists,
                streamSelection, progress, status, fs, fs0, call, counter,
                downloadPath, chunksLeft, dlCount, reordered>>

\* the window closes whatever the program is doing, as it would if download
\* ran on a thread of its own (a faulty variant)
WinClosed_Threaded ==
    /\ pc \in {"loop", "dl", "vdl"}
    /\ pc' = "closed"
    /\ UNCHANGED <<url, variant, constructed, raised, appVars>>

\* event == sg.WIN_CLOSED: break, then self._download_window.close()
WinClosed ==
    /\ pc = "loop"
    /\ pc' = "closed"
    /\ UNCHANGED <<url, variant, constructed, raised, appVars>>

\* event == "-URL-"
ClickUrl ==
    /\ pc = "loop"
    /\ opened' = storedUrl
    /\ UNCHANGED <<pc, folder>>
    /\ LoopFrame

\* event == "-OWNER-" (playlist window)
ClickOwner ==
    /\ pc = "loop"
    /\ variant = "PlaylistDownloader"
    /\ opened' = OwnerUrl
    /\ UNCHANGED <<pc, folder>>
    /\ LoopFrame

\* event == "-CREATOR-" (video window)
ClickCreator ==
    /\ pc = "loop"
    /\ variant = "VideoDownloader"
    /\ opened' = ChannelUrl
    /\ UNCHANGED <<pc, folder>>
    /\ LoopFrame

\* event == "-THUMB-" (video window)
ClickThumb ==
    /\ pc = "loop"
    /\ variant = "VideoDownloader"
    /\ opened' = ThumbnailUrl
    /\ UNCHANGED <<pc, folder>>
    /\ LoopFrame

\* event == "-FOLDER-": the input changed to d; no branch of the loop handles it
FolderInput(d) ==
    /\ pc = "loop"
    /\ folder' = d
    /\ UNCHANGED <<pc, opened>>
    /\ LoopFrame

-----------------------------------------------------------------------------
(* The strings the classifier is tried on: every combination of a scheme,  *)
(* a subdomain, a host and a tail.                                         *)

\* a playlist id of n characters, and a video id of n characters
PlId(n)  == "PL" \o Rep("x", n - 4) \o "-_"
VidId(n) == SubSeq("abc12345678_-", 1, n)

Schemes == {"", "http://", "https://", "ftp://"}
Subs    == {"", "www.", "m.", "music."}
Hosts   == {"youtube.com", "youtube-nocookie.com", "youtu.be", "youtuXbe",
            "youtubeXcom", "vimeo.com"}
Tails   ==
    { "", "/",
      "/playlist?list=" \o PlId(PlaylistIdLen),
      "/playlist?list=" \o PlId(PlaylistIdLen - 1),
      "/playlist?list=" \o PlId(PlaylistIdLen + 1),
      "/playlist?list=" \o PlId(PlaylistIdLen) \o "\n",
      "/playlist?list=" \o PlId(PlaylistIdLen) \o "&v=" \o VidId(VideoIdLen),
      "/playlist?list=" \o Rep("?", PlaylistIdLen),
      "playlist?list=" \o PlId(PlaylistIdLen),
      "/watch?v=" \o VidId(VideoIdLen),
      "/watch?v=" \o VidId(VideoIdLen - 1),
      "/watch?v=" \o VidId(VideoIdLen + 1),
      "/watch?v=" \o VidId(VideoIdLen) \o "&list=" \o PlId(PlaylistIdLen),
      "/watch?v=" \o VidId(VideoIdLen) \o "?t=1m30s",
      "/watch?v=" \o VidId(VideoIdLen) \o " x",
      "/watch?v=" \o VidId(VideoIdLen) \o "\n",
      "/embed/" \o VidId(VideoIdLen),
      "/v/" \o VidId(VideoIdLen),
      "/" \o VidId(VideoIdLen),
      "/" \o VidId(VideoIdLen - 1) }

Urls == {sch \o sub \o host \o tail :
            sch \in Schemes, sub \in Subs, host \in Hosts, tail \in Tails}

-----------------------------------------------------------------------------
(* The helper functions on their own *)

MaxNameLen == 3
MaxProbe == 3

Sanitize ==
    /\ sanOut = <<>>
    /\ sanOut' = <<_remove_forbidden_characters_from_file_name(sanIn)>>
    /\ UNCHANGED sanIn

SanitizeAgain ==
    /\ Len(sanOut) = 1
    /\ sanOut' = Append(sanOut, _remove_forbidden_characters_from_file_name(sanOut[1]))
    /\ UNCHANGED sanIn

IncrementDir ==
    /\ incIn.kind = "dir"
    /\ incOut = <<>>
    /\ incOut' = <<_increment_playlist_dir_name(incIn.files, incIn.root, incIn.name)>>
    /\ UNCHANGED incIn

IncrementFile ==
    /\ incIn.kind = "file"
    /\ incOut = <<>>
    /\ incOut' = <<_increment_video_file_name(incIn.files, incIn.root, incIn.name)>>
    /\ UNCHANGED incIn

\* the characters names are made of: the nine and four others
NameChars == {"\"", "\\", "/", ":", "*", "?", "<", ">", "|", "a", "B", " ", "."}

RECURSIVE Strings(_)
\* the strings of at most n characters of NameChars
Strings(n) ==
    IF n = 0 THEN {""}
    ELSE LET S == Strings(n - 1) IN S \cup {c \o str : c \in NameChars, str \in S}

IncRoots == {"/tmp/out", "out/"}
IncNames == {"a", "a (1)", ""}

\* "name", "name (1)", ..., with and without ".mp4", and the root itself
Entries(root, name) ==
    {Path(root)} \cup
    {Path(root \o "/" \o name \o ext) : ext \in {"", ".mp4"}} \cup
    {Path(root \o "/" \o name \o " (" \o ToString(k) \o ")" \o ext) :
        k \in 1..MaxProbe, ext \in {"", ".mp4"}}

\* the file systems an increment function is tried on: for one kind of entry
\* any choice among name, name (1), ..., for the other kind none or all
FileSystems(kind, root, name) ==
    LET own   == IF kind = "dir" THEN "" ELSE ".mp4"
        mine  == {Path(root \o "/" \o name \o own)} \cup
                 {Path(root \o "/" \o name \o " (" \o ToString(k) \o ")" \o own) :
                     k \in 1..MaxProbe}
        other == Entries(root, name) \ mine
    IN  {m \cup o : m \in SUBSET mine, o \in {{}, {Path(root)}, other}}

-----------------------------------------------------------------------------
(* Initial states and specifications *)

IdleCls ==
    /\ url = ""
    /\ pc = "idle"
    /\ variant = ""
    /\ constructed = <<>>
    /\ raised = ""

IdleSan ==
    /\ sanIn = ""
    /\ sanOut = <<>>

IdleInc ==
    /\ incIn = [kind |-> "", root |-> "", name |-> "", files |-> {}]
    /\ incOut = <<>>

NoPlatform == [title |-> "", videos |-> <<>>, length |-> 0]

IdleApp ==
    /\ filePath = ""
    /\ platform = NoPlatform
    /\ storedUrl = ""
    /\ pool = NoPool
    /\ reordered = FALSE
    /\ lists = <<>>
    /\ streamSelection = NoSelection
    /\ folder = ""
    /\ progress = 0
    /\ status = ""
    /\ opened = ""
    /\ fs = {}
    /\ fs0 = {}
    /\ call = NoCall
    /\ counter = 0
    /\ downloadPath = ""
    /\ chunksLeft = 0
    /\ dlCount = [d \in Dirs |-> 0]

InitClassify ==
    /\ url \in Urls
    /\ pc = "main"
    /\ variant = ""
    /\ constructed = <<>>
    /\ raised = ""
    /\ IdleSan /\ IdleInc /\ IdleApp

NextClassify == GetDownloader /\ UNCHANGED <<sanVars, incVars, appVars, raceVars>>

SpecClassify == InitClassify /\ [][NextClassify]_vars

InitSanitize ==
    /\ sanIn \in Strings(MaxNameLen)
    /\ sanOut = <<>>
    /\ IdleCls /\ IdleInc /\ IdleApp

NextSanitize ==
    \/ Sanitize /\ UNCHANGED <<clsVars, incVars, appVars, raceVars>>
    \/ SanitizeAgain /\ UNCHANGED <<clsVars, incVars, appVars, raceVars>>

SpecSanitize == InitSanitize /\ [][NextSanitize]_vars

InitIncrement ==
    /\ \E kind \in {"dir", "file"}, root \in IncRoots, name \in IncNames :
         \E files \in FileSystems(kind, root, name) :
            incIn = [kind |-> kind, root |-> root, name |-> name, files |-> files]
    /\ incOut = <<>>
    /\ IdleCls /\ IdleSan /\ IdleApp

NextIncrement ==
    \/ IncrementDir /\ UNCHANGED <<clsVars, sanVars, appVars, raceVars>>
    \/ IncrementFile /\ UNCHANGED <<clsVars, sanVars, appVars, raceVars>>

SpecIncrement == InitIncrement /\ [][NextIncrement]_vars

\* the URLs the application is started on
PlaylistUrl == "https://www.youtube.com/playlist?list=" \o PlId(PlaylistIdLen)
VideoUrls   == {"https://www.youtube.com/watch?v=abc12345678", "youtu.be/abc12345678"}
OtherUrl    == "https://vimeo.com/abc12345678"

VideoTitles == {"a?", "b"}
Offers      == {{HD, LD, AUDIO}, {LD}}
Videos      == [title : VideoTitles, offers : Offers]

RECURSIVE Playlists(_)
\* the playlists of at most n videos
Playlists(n) ==
    IF n = 0 THEN {<<>>}
    ELSE LET S == Playlists(n - 1) IN S \cup {Append(l, v) : l \in S, v \in Videos}

\* what the platform may hold for the URL u
Platforms(u) ==
    IF u = PlaylistUrl
    THEN {[title |-> "PL?", videos |-> l, length |-> Len(l) + hidden] :
             l \in Playlists(MaxVideos), hidden \in {0, 1}}
    ELSE IF u \in VideoUrls
    THEN {[title |-> "", videos |-> <<v>>, length |-> 1] : v \in Videos}
    ELSE {NoPlatform}

\* the file systems the application is started on
StartFileSystems ==
    { {"/"},
      {"/", "/tmp", "/tmp/out", "/tmp/out/a.mp4", "/tmp/out/PL"} }

Init ==
    /\ url \in {PlaylistUrl, OtherUrl} \cup VideoUrls
    /\ pc = "main"
    /\ variant = ""
    /\ constructed = <<>>
    /\ raised = ""
    /\ platform \in Platforms(url)
    /\ fs0 \in StartFileSystems
    /\ fs = fs0
    /\ storedUrl = ""
    /\ pool = NoPool
    /\ reordered = FALSE
    /\ lists = <<>>
    /\ streamSelection = NoSelection
    /\ folder = ""
    /\ progress = 0
    /\ status = ""
    /\ opened = ""
    /\ call = NoCall
    /\ counter = 0
    /\ downloadPath = ""
    /\ chunksLeft = 0
    /\ dlCount = [d \in Dirs |-> 0]
    /\ filePath = ""
    /\ IdleSan /\ IdleInc

Next ==
    \/ GetDownloader /\ UNCHANGED <<sanVars, incVars, appVars, raceVars>>
    \/ PlaylistInit /\ UNCHANGED <<sanVars, incVars, raceVars>>
    \/ \E i \in 1..MaxVideos : Lookup(i) /\ UNCHANGED <<sanVars, incVars, raceVars>>
    \/ Collect /\ UNCHANGED <<sanVars, incVars, raceVars>>
    \/ VideoInit /\ UNCHANGED <<sanVars, incVars, raceVars>>
    \/ WinClosed /\ UNCHANGED <<sanVars, incVars, raceVars>>
    \/ ClickUrl /\ UNCHANGED <<sanVars, incVars, raceVars>>
    \/ ClickOwner /\ UNCHANGED <<sanVars, incVars, raceVars>>
    \/ ClickCreator /\ UNCHANGED <<sanVars, incVars, raceVars>>
    \/ ClickThumb /\ UNCHANGED <<sanVars, incVars, raceVars>>
    \/ \E d \in Dirs \cup {""} : FolderInput(d) /\ UNCHANGED <<sanVars, incVars, raceVars>>
    \/ \E e \in DOMAIN PlaylistButtons : PlaylistDownload(e) /\ UNCHANGED <<sanVars, incVars, raceVars>>
    \/ PlaylistItem /\ UNCHANGED <<sanVars, incVars, raceVars>>
    \/ PlaylistComplete /\ UNCHANGED <<sanVars, incVars, raceVars>>
    \/ \E e \in DOMAIN VideoButtons : VideoDownload(e) /\ UNCHANGED <<sanVars, incVars, raceVars>>
    \/ VideoChunk /\ UNCHANGED <<sanVars, incVars, raceVars>>
    \/ VideoComplete /\ UNCHANGED <<sanVars, incVars, raceVars>>

Spec == Init /\ [][Next]_vars

-----------------------------------------------------------------------------
(* The downloads next to another process that creates entries of the file  *)
(* system.  Here the probe of VideoDownloader.download and the call of the *)
(* primitive are two steps, as they are for the playlist already.          *)

\* VideoDownloader.download down to file_path (the two early returns, the probe)
VideoProbe(event) ==
    /\ pc = "loop"
    /\ variant = "VideoDownloader"
    /\ event \in DOMAIN VideoButtons
    /\ LET o == VideoButtons[event]
           c == EnterCall(event, o)
           clean_video_title ==
               _remove_forbidden_characters_from_file_name(platform.videos[1].title)
           file_path ==
               _increment_video_file_name(fs, folder, clean_video_title) \o ".mp4"
           notice == Rejection(folder, streamSelection[o])
       IN  IF notice # ""
           THEN /\ call' = Popup(c, notice)
                /\ UNCHANGED <<pc, dlCount, filePath>>
           ELSE /\ dlCount[folder] < MaxDownloads
                /\ filePath' = file_path
                /\ call' = [c EXCEPT !.probes =
                               Probes(fs, folder \o "/" \o clean_video_title, ".mp4")]
                /\ dlCount' = [dlCount EXCEPT ![folder] = @ + 1]
                /\ pc' = "vprobed"
    /\ UNCHANGED <<url, variant, constructed, raised, platform, storedUrl, pool,
                   lists, streamSelection, folder, progress, status, opened, fs,
                   fs0, counter, downloadPath, chunksLeft, reordered>>

\* the call of the primitive, with a second probe when the path is taken by then
\* (a variant the code does not have)
VideoWrite_Reprobe ==
    /\ pc = "vprobed"
    /\ LET clean_video_title ==
               _remove_forbidden_characters_from_file_name(platform.videos[1].title)
           file_path ==
               IF exists(fs, call.dir \o "/" \o filePath)
               THEN _increment_video_file_name(fs, call.dir, clean_video_title)
                        \o ".mp4"
               ELSE filePath
       IN  /\ fs' = StreamDownload(fs, call.dir, file_path)
           /\ call' = Written(call, call.dir, file_path)
    /\ chunksLeft' = NumChunks
    /\ pc' = "vdl"
    /\ UNCHANGED <<url, variant, constructed, raised, platform, storedUrl, pool,
                   lists, streamSelection, folder, progress, status, opened, fs0,
                   counter, downloadPath, dlCount, reordered, filePath>>

\* stream_selection.download(output_path=str(download_dir), filename=file_path),
\* up to the point where the primitive has opened the file: an entry already at
\* the path is written over, or left as it is
VideoWrite ==
    /\ pc = "vprobed"
    /\ fs' = StreamDownload(fs, call.dir, filePath)
    /\ call' = Written(call, call.dir, filePath)
    /\ chunksLeft' = NumChunks
    /\ pc' = "vdl"
    /\ UNCHANGED <<url, variant, constructed, raised, platform, storedUrl, pool,
                   lists, streamSelection, folder, progress, status, opened, fs0,
                   counter, downloadPath, dlCount, reordered, filePath>>

\* the arguments of the call of the primitive that is next
NextWrite ==
    IF pc = "vprobed"
    THEN [output_path |-> call.dir, filename |-> filePath]
    ELSE [output_path |-> downloadPath,
          filename |->
              _remove_forbidden_characters_from_file_name(
                  platform.videos[
                      streamSelection[call.opt].streams[counter + 1].video].title)
                  \o ".mp4"]

\* the primitive is about to be called on a path that another process has taken:
\* the file of the video, the directory of the playlist before its first file,
\* or a file of the playlist
Collision ==
    \/ /\ pc = "vprobed"
       /\ exists(fs, NextWrite.output_path \o "/" \o NextWrite.filename)
    \/ /\ pc = "dl"
       /\ counter < Len(streamSelection[call.opt].streams)
       /\ \/ counter = 0 /\ exists(fs, downloadPath)
          \/ exists(fs, NextWrite.output_path \o "/" \o NextWrite.filename)

\* the primitive raises on the entry it finds (a directory where the file is to
\* be, a file where the directory is to be); download and create_window have no
\* except clause, so the error ends the program
PrimitiveRaises ==
    /\ Collision
    /\ call' = Written(call, NextWrite.output_path, NextWrite.filename)
    /\ raised' = "OSError"
    /\ pc' = "crashed"
    /\ UNCHANGED <<url, variant, constructed, platform, storedUrl, pool, lists,
                   streamSelection, folder, progress, status, opened, fs, fs0,
                   counter, downloadPath, chunksLeft, dlCount, reordered, filePath>>

RaceSuffixes == {"", " (1)"}

\* the names the increment functions may choose in the directory d
RacePaths(d) ==
    IF variant = "PlaylistDownloader"
    THEN {Path(d \o "/"
                 \o _remove_forbidden_characters_from_file_name(platform.title)
                 \o suffix) : suffix \in RaceSuffixes}
    ELSE {Path(d \o "/"
                 \o _remove_forbidden_characters_from_file_name(
                        platform.videos[1].title)
                 \o suffix \o ".mp4") : suffix \in RaceSuffixes}

\* another process (a second instance of the application, say) creates p
OtherProcess(p) ==
    /\ pc \in {"loop", "vprobed", "dl", "vdl"}
    /\ p \in UNION {RacePaths(d) : d \in Dirs}
    /\ ~exists(fs, p)
    /\ fs' = fs \cup Ancestors(p)
    /\ UNCHANGED <<clsVars, platform, storedUrl, pool, lists, streamSelection,
                   folder, progress, status, opened, fs0, call, counter,
                   downloadPath, chunksLeft, dlCount, reordered, filePath>>

RacePlatforms(u) ==
    IF u = PlaylistUrl
    THEN {[title |-> "PL?", videos |-> <<v>>, length |-> 1] : v \in Videos}
    ELSE {[title |-> "", videos |-> <<v>>, length |-> 1] : v \in Videos}

InitRace ==
    /\ url \in {PlaylistUrl, "youtu.be/abc12345678"}
    /\ pc = "main"
    /\ variant = ""
    /\ constructed = <<>>
    /\ raised = ""
    /\ platform \in RacePlatforms(url)
    /\ fs0 \in StartFileSystems
    /\ fs = fs0
    /\ storedUrl = ""
    /\ pool = NoPool
    /\ reordered = FALSE
    /\ lists = <<>>
    /\ streamSelection = NoSelection
    /\ folder = ""
    /\ progress = 0
    /\ status = ""
    /\ opened = ""
    /\ call = NoCall
    /\ counter = 0
    /\ downloadPath = ""
    /\ chunksLeft = 0
    /\ dlCount = [d \in Dirs |-> 0]
    /\ filePath = ""
    /\ IdleSan /\ IdleInc

NextRace ==
    \/ GetDownloader /\ UNCHANGED <<sanVars, incVars, appVars, raceVars>>
    \/ PlaylistInit /\ UNCHANGED <<sanVars, incVars, raceVars>>
    \/ \E i \in 1..MaxVideos : Lookup(i) /\ UNCHANGED <<sanVars, incVars, raceVars>>
    \/ Collect /\ UNCHANGED <<sanVars, incVars, raceVars>>
    \/ VideoInit /\ UNCHANGED <<sanVars, incVars, raceVars>>
    \/ WinClosed /\ UNCHANGED <<sanVars, incVars, raceVars>>
    \/ \E d \in Dirs \cup {""} : FolderInput(d) /\ UNCHANGED <<sanVars, incVars, raceVars>>
    \/ \E e \in DOMAIN PlaylistButtons : PlaylistDownload(e) /\ UNCHANGED <<sanVars, incVars, raceVars>>
    \/ PlaylistItem /\ UNCHANGED <<sanVars, incVars, raceVars>>
    \/ PlaylistComplete /\ UNCHANGED <<sanVars, incVars, raceVars>>
    \/ \E e \in DOMAIN VideoButtons : VideoProbe(e) /\ UNCHANGED <<sanVars, incVars>>
    \/ VideoWrite /\ UNCHANGED <<sanVars, incVars>>
    \/ VideoChunk /\ UNCHANGED <<sanVars, incVars, raceVars>>
    \/ VideoComplete /\ UNCHANGED <<sanVars, incVars, raceVars>>
    \/ PrimitiveRaises /\ UNCHANGED <<sanVars, incVars>>
    \/ \E d \in Dirs : \E p \in RacePaths(d) : OtherProcess(p) /\ UNCHANGED <<sanVars, incVars>>

SpecRace == InitRace /\ [][NextRace]_vars

-----------------------------------------------------------------------------
(* Properties *)

\* C1 (SpecClassify): once get_downloader has run on url, a url that the
\* playlist pattern matches as a whole has given a PlaylistDownloader, a url
\* that only the video pattern matches a VideoDownloader, and any other url
\* the RegexMatchError and no downloader at all.
C1_Classification ==
    pc # "main" =>
        LET playlist == fullmatch(_YOUTUBE_PLAYLIST_URL_PATTERN, url)
            video    == fullmatch(_YOUTUBE_VIDEO_URL_PATTERN, url)
        IN  /\ playlist =>
                /\ constructed = <<"PlaylistDownloader">>
                /\ variant = "PlaylistDownloader"
                /\ raised = ""
            /\ ~playlist /\ video =>
                /\ constructed = <<"VideoDownloader">>
                /\ variant = "VideoDownloader"
                /\ raised = ""
            /\ ~playlist /\ ~video =>
                /\ constructed = <<>>
                /\ variant = ""
                /\ raised = RegexMatchError
                /\ pc = "error"

\* a playlist URL was classified
C1_Witness ==
    /\ pc = "ctor"
    /\ fullmatch(_YOUTUBE_PLAYLIST_URL_PATTERN, url)
    /\ constructed = <<"PlaylistDownloader">>

\* the path of the n-th candidate of the increment under way, n = 0 being the
\* original name, and the value the function returns for it
C2_Suffix(n) == IF n = 0 THEN "" ELSE " (" \o ToString(n) \o ")"
C2_Path(n) ==
    Path(incIn.root \o "/" \o incIn.name \o C2_Suffix(n)
         \o (IF incIn.kind = "file" THEN ".mp4" ELSE ""))
C2_Return(n) ==
    IF incIn.kind = "file" THEN incIn.name \o C2_Suffix(n) ELSE C2_Path(n)

\* C2 (SpecIncrement): an increment function returns the name unchanged when
\* nothing exists at the original path, and otherwise "name (n)" for the least
\* n >= 1 at which nothing exists; what it returns never exists.
C2_Increment ==
    incOut # <<>> =>
        IF C2_Path(0) \notin incIn.files
        THEN incOut[1] = C2_Return(0)
        ELSE \E n \in 1..(MaxProbe + 1) :
                /\ incOut[1] = C2_Return(n)
                /\ C2_Path(n) \notin incIn.files
                /\ \A k \in 1..(n - 1) : C2_Path(k) \in incIn.files

\* "a.mp4" and "a (1).mp4" exist, "a (2).mp4" does not but "a (3).mp4" does:
\* the file function answers "a (2)"
C2_Witness ==
    /\ incIn.kind = "file"
    /\ incIn.name = "a"
    /\ C2_Path(3) \in incIn.files
    /\ incOut = <<"a (2)">>

\* the nine characters of the claim
C3_Nine == {"\"", "\\", "/", ":", "*", "?", "<", ">", "|"}

\* the positions of name that hold none of the nine characters
C3_Kept(name) == {i \in 1..Len(name) : CharAt(name, i) \notin C3_Nine}

\* C3 (SpecSanitize): the result holds the characters of the input other than
\* the nine, each as often and in the order of the input, and none of the
\* nine; a second application changes nothing.
C3_Sanitation ==
    /\ Len(sanOut) >= 1 =>
        /\ Len(sanOut[1]) = Cardinality(C3_Kept(sanIn))
        /\ \A i \in C3_Kept(sanIn) :
              CharAt(sanOut[1], Cardinality({j \in C3_Kept(sanIn) : j <= i}))
                  = CharAt(sanIn, i)
        /\ \A i \in 1..Len(sanOut[1]) : CharAt(sanOut[1], i) \notin C3_Nine
    /\ Len(sanOut) = 2 => sanOut[2] = sanOut[1]

\* a name of three characters lost its two forbidden ones, twice
C3_Witness ==
    /\ sanIn = "|a\\"
    /\ sanOut = <<"a", "a">>

\* download was called: from the button call.event, with the directory call.dir
Called == call.event # ""

\* nothing but the notices of the call has happened since download was entered
C45_NoEffect ==
    /\ call.probes = 0
    /\ call.writes = <<>>
    /\ fs = call.fsBefore
    /\ progress = call.progressBefore
    /\ status = call.statusBefore
    /\ pc \in {"loop", "closed"}
    /\ raised = ""

\* C4 (Spec): a call of download with an empty directory shows the notice
\* 'Please select a download directory' and nothing else: no other notice, no
\* probe of the file system, no write, no change of the progress bar.
C4_EmptyDirectory ==
    Called /\ call.dir = "" =>
        /\ call.notices = <<DirNotice>>
        /\ C45_NoEffect

\* a video download of an option without a stream was asked for with no directory
C4_Witness ==
    /\ variant = "VideoDownloader"
    /\ Called /\ call.dir = ""
    /\ ~streamSelection[call.opt].present
    /\ call.notices = <<DirNotice>>

\* C5 (Spec): a call of download with a directory and an option whose stream
\* selection is absent shows the notice 'This resolution is unavailable.' and
\* nothing else, and raises nothing.
C5_Unavailable ==
    Called /\ call.dir # "" /\ ~streamSelection[call.opt].present =>
        /\ call.notices = <<UnavailableNotice>>
        /\ C45_NoEffect

\* a playlist download of an option that one video lacks was asked for
C5_Witness ==
    /\ variant = "PlaylistDownloader"
    /\ Called /\ call.dir # ""
    /\ ~streamSelection[call.opt].present
    /\ call.notices = <<UnavailableNotice>>
    /\ \E i \in 1..NumVideos : call.opt \in platform.videos[i].offers

\* the .mp4 files in directory d
FilesIn(files, d) ==
    {f \in files : /\ Len(f) > Len(d) + 5
                   /\ SubSeq(f, 1, Len(d) + 1) = d \o "/"
                   /\ SubSeq(f, Len(f) - 3, Len(f)) = ".mp4"}

\* the file name the claim gives for a download of title into dir on files
C6_Candidate(title, n) ==
    _remove_forbidden_characters_from_file_name(title)
        \o (IF n = 0 THEN "" ELSE " (" \o ToString(n) \o ")") \o ".mp4"

\* C6 (Spec): a video download with a directory D and an available option calls
\* the download primitive once, with D and "<title>.mp4" if D holds no such
\* file, else "<title> (n).mp4" for the least free n; no file that exists is
\* written to, and D holds one file more for each download.
C6_VideoDownload ==
    variant = "VideoDownloader" =>
        /\ Called /\ call.dir # "" /\ streamSelection[call.opt].present =>
            /\ Len(call.writes) = 1
            /\ call.writes[1].output_path = call.dir
            /\ ~call.writes[1].existed
            /\ LET title == platform.videos[1].title
                   at(n) == Path(call.dir \o "/" \o C6_Candidate(title, n))
               IN  IF at(0) \notin call.fsBefore
                   THEN call.writes[1].filename = C6_Candidate(title, 0)
                   ELSE \E n \in 1..(MaxDownloads + 1) :
                           /\ call.writes[1].filename = C6_Candidate(title, n)
                           /\ at(n) \notin call.fsBefore
                           /\ \A k \in 1..(n - 1) : at(k) \in call.fsBefore
        /\ fs0 \subseteq fs
        /\ \A d \in Dirs :
              Cardinality(FilesIn(fs, d)) = Cardinality(FilesIn(fs0, d)) + dlCount[d]

\* the second download of a video whose file was there from the start
C6_Witness ==
    /\ variant = "VideoDownloader"
    /\ pc = "loop"
    /\ platform.videos[1].title = "a?"
    /\ call.writes = <<[output_path |-> "/tmp/out", filename |-> "a (2).mp4",
                        existed |-> FALSE]>>
    /\ call.notices = <<VideoDoneNotice>>

\* the downloader is constructed: its window loop runs or has ended
Constructed == pc \in {"loop", "dl", "vdl", "closed"}

\* a playlist download got past the two early returns
PlaylistAttempt ==
    /\ variant = "PlaylistDownloader"
    /\ Called /\ call.dir # "" /\ streamSelection[call.opt].present

\* C7 (Spec): in a playlist download every stream is written to a path at which
\* nothing exists at that moment, so that the N streams end up as N files of a
\* directory that did not exist before the download.
C7_CollisionFree ==
    PlaylistAttempt =>
        /\ downloadPath \notin call.fsBefore
        /\ \A k \in 1..Len(call.writes) : ~call.writes[k].existed
        /\ pc \in {"loop", "closed"} =>
              Cardinality(FilesIn(fs, downloadPath))
                  = Len(streamSelection[call.opt].streams)

\* C8 (Spec): the stream selection a PlaylistDownloader stores for an option is
\* absent if a video of the playlist has no stream for the option, and
\* otherwise the streams of the videos, one for each and in the order of the
\* playlist, however the lookups of the pool finished; no list with an absent
\* entry is ever stored.
C8_AllOrNothing ==
    /\ \A o \in DownloadOptions : NoStream \notin Range(streamSelection[o].streams)
    /\ variant = "PlaylistDownloader" /\ Constructed =>
        \A o \in DownloadOptions :
            IF \E i \in 1..NumVideos : o \notin platform.videos[i].offers
            THEN streamSelection[o] = [present |-> FALSE, streams |-> <<>>]
            ELSE /\ streamSelection[o].present
                 /\ Len(streamSelection[o].streams) = NumVideos
                 /\ \A i \in 1..NumVideos :
                       streamSelection[o].streams[i] = [video |-> i, opt |-> o]

\* two videos, the lookups of some option finished in reverse, one option
\* is available and one is not
C8_Witness ==
    /\ variant = "PlaylistDownloader"
    /\ pc = "loop"
    /\ NumVideos = 2
    /\ reordered
    /\ Len(streamSelection[LD].streams) = 2
    /\ ~streamSelection[HD].present

\* C9 (Spec): no step of a constructed downloader, be it a window event or a
\* step of a download that succeeds or is rejected, changes the stream
\* selection of any option or the stored URL.
C9_SelectionFixed ==
    [][Constructed => /\ streamSelection' = streamSelection
                      /\ storedUrl' = storedUrl]_vars

\* after a download that went through, one was rejected for its option, and
\* the selection is still the one the constructor computed
C9_Witness ==
    /\ Constructed
    /\ \E d \in Dirs : dlCount[d] >= 1
    /\ call.notices = <<UnavailableNotice>>
    /\ storedUrl = "https://youtu.be/abc12345678"
    /\ \A o \in DownloadOptions :
          streamSelection[o] = Selection(<<_get_stream_from_video(1, o)>>)

\* a download got past the two early returns
Attempt == Called /\ call.dir # "" /\ streamSelection[call.opt].present

C10_State ==
    /\ variant = "PlaylistDownloader" /\ pc = "dl" =>
        /\ progress = counter
        /\ counter = Len(call.writes)
        /\ counter <= Len(streamSelection[call.opt].streams)
        /\ status = (IF counter = 0 THEN ""
                     ELSE ToString(counter) \o " of " \o ToString(platform.length))
        /\ call.notices = <<>>
    /\ Attempt /\ pc \in {"loop", "closed"} =>
        /\ progress = 0
        /\ status = ""
        /\ call.notices = <<IF variant = "PlaylistDownloader"
                            THEN PlaylistDoneNotice ELSE VideoDoneNotice>>
        /\ variant = "PlaylistDownloader" =>
              Len(call.writes) = Len(streamSelection[call.opt].streams)

C10_Step ==
    variant = "PlaylistDownloader" /\ progress' # progress =>
        \/ /\ pc = "dl" /\ pc' = "dl"
           /\ Len(call'.writes) = Len(call.writes) + 1
           /\ progress' = progress + 1
        \/ /\ pc = "dl" /\ pc' = "loop"
           /\ Len(call.writes) = Len(streamSelection[call.opt].streams)
           /\ progress' = 0

-----------------------------------------------------------------------------
(* The event loop *)

\* the step is inside the download call of `call`: same button, same arguments
SameCall ==
    /\ call'.event = call.event
    /\ call'.opt = call.opt
    /\ call'.dir = call.dir
    /\ call'.fsBefore = call.fsBefore
    /\ call'.progressBefore = call.progressBefore
    /\ call'.statusBefore = call.statusBefore

\* the step shows what an event handler does first: a download call is entered,
\* a page is opened, the folder input changes, or the window closes
EventHandled ==
    \/ ~SameCall
    \/ dlCount' # dlCount
    \/ opened' # opened
    \/ folder' # folder
    \/ pc' = "closed"

RejectionNotices == {<<DirNotice>>, <<UnavailableNotice>>}

C11_Step ==
    /\ EventHandled => pc = "loop"
    /\ pc \in {"dl", "vdl"} =>
          /\ pc' \in {pc, "loop"}
          /\ pc' = "loop" =>
                call'.notices = <<IF variant = "PlaylistDownloader"
                                  THEN PlaylistDoneNotice ELSE VideoDoneNotice>>
    /\ pc' \in {"dl", "vdl"} /\ pc' # pc => pc = "loop" /\ call'.notices = <<>>
    /\ call' # call /\ call'.notices \in RejectionNotices =>
          pc = "loop" /\ pc' = "loop"
    /\ pc' = "closed" => pc = "loop" /\ UNCHANGED appVars
    /\ pc # "closed"

\* C11 (Spec): the window loop of both variants handles one event at a time.  An
\* event handler (a download call, a page opened, the folder input, the close of
\* the window) starts only where the loop reads an event; while a download is
\* in progress no handler starts, and the download leaves that state only by
\* its completion notice; a missing-directory or unavailable-option notice
\* leaves the loop reading events; the window closes only from the read of the
\* window-closed event, which changes nothing else, and nothing happens after it.
C11_OneAtATime == [][C11_Step]_vars

\* a playlist download is in progress, one item written, after the loop had
\* handled a page click and the folder input
C11_Witness ==
    /\ variant = "PlaylistDownloader"
    /\ pc = "dl"
    /\ Len(call.writes) = 1
    /\ Len(streamSelection[call.opt].streams) = 2
    /\ opened = OwnerUrl
    /\ folder = call.dir

-----------------------------------------------------------------------------
(* The probe and the write next to another process *)

\* a call of the primitive has been made on a path at which an entry existed
WroteOnExisting ==
    \E k \in 1..Len(call.writes) : call.writes[k].existed

C12_State ==
    /\ pc = "crashed" => raised = "OSError" /\ call.notices = <<>>
    /\ raised = "OSError" => pc = "crashed"
    /\ pc = "vprobed" => call.probes >= 1 /\ call.writes = <<>>

C12_Step ==
    \* the names are probed where download is entered, never again
    /\ call'.probes # call.probes => pc = "loop"
    /\ pc \in {"vprobed", "dl", "vdl"} =>
          filePath' = filePath /\ downloadPath' = downloadPath
    \* the video: the one call of the primitive is on the name the probe chose,
    \* whether or not the path exists by then
    /\ pc = "vprobed" /\ pc' # "vprobed" =>
          LET taken == exists(fs, call.dir \o "/" \o filePath)
          IN  /\ call'.writes = <<[output_path |-> call.dir,
                                   filename |-> filePath,
                                   existed |-> taken]>>
              /\ pc' \in {"vdl", "crashed"}
              /\ pc' = "vdl" =>
                    /\ exists(fs', call.dir \o "/" \o filePath)
                    /\ taken => fs' = fs
              /\ pc' = "crashed" => taken /\ fs' = fs
    \* the playlist: every call of the primitive is into the directory the probe
    \* chose, whether or not the directory exists before the first of them
    /\ pc = "dl" /\ call'.writes # call.writes =>
          /\ Len(call'.writes) = Len(call.writes) + 1
          /\ call'.writes[Len(call'.writes)].output_path = downloadPath
          /\ pc' \in {"dl", "crashed"}
          /\ pc' = "dl" => exists(fs', downloadPath)
          /\ pc' = "crashed" => Collision /\ fs' = fs
    \* an error of the primitive is caught nowhere
    /\ pc' = "crashed" /\ pc # "crashed" => Collision /\ raised' = "OSError"
    /\ pc # "crashed"

=============================================================================
